---- MODULE Spec2Model ----
(***************************************************************************)
(* name_maker: random name generation (src/src/name_generator.rs) and the *)
(* command-line front end (src/src/main.rs).                              *)
(*                                                                         *)
(* The thread-local random source is modelled as a tape of draws that the  *)
(* generator consumes front to back: every rand::random() and every        *)
(* gen_range(0..len) takes the head of the tape.                           *)
(***************************************************************************)
EXTENDS Naturals, Sequences, FiniteSets, TLC

VARIABLES rng, phase, call, tape, ret, saved, argv, out

vars == <<rng, phase, call, tape, ret, saved, argv, out>>

(***************************************************************************)
(* Bounds                                                                  *)
(***************************************************************************)
\* largest amount passed to a library operation
MaxAmount == 2
\* largest number of command-line arguments (program name removed)
MaxArgs == 3

(***************************************************************************)
(* Data model                                                              *)
(***************************************************************************)
Male == "Male"
Female == "Female"
Gender == {Male, Female}

\* NameBank { bank, len }: len is set to bank.len() at construction
NameBank(names) == [bank |-> names, len |-> Len(names)]

\* The generator after RandomNameGenerator::init(): three banks of trimmed lines
RandomNameGenerator ==
    [male_first_names   |-> NameBank(<<"Adam", "Bob">>),
     female_first_names |-> NameBank(<<"Eve", "Mary">>),
     last_names         |-> NameBank(<<"Smith", "Jones">>)]

RandomName(first, last) == [first_name |-> first, last_name |-> last]

\* impl fmt::Display for RandomName
Display(name) == name.first_name \o " " \o name.last_name

\* the elements of a bank
BankSet(nb) == {nb.bank[i] : i \in 1..Len(nb.bank)}

\* values a draw of the random source can take: rand::random::<bool>() is one
\* bit, gen_range(0..len) an index below len, and every bank here has 2 entries
Draws == 0..1

(***************************************************************************)
(* Returned values.  tag "None"/"Some" is an Option<Vec<RandomName>>,      *)
(* "Vec" a Vec<RandomName>, "Name" a single RandomName (held in names[1]). *)
(***************************************************************************)
NoRet == [tag |-> "idle", names |-> <<>>]
None == [tag |-> "None", names |-> <<>>]
Some(v) == [tag |-> "Some", names |-> v]
RetVec(v) == [tag |-> "Vec", names |-> v]
RetName(n) == [tag |-> "Name", names |-> <<n>>]

(***************************************************************************)
(* Sampling primitives.  Every operator that draws takes the tape and      *)
(* returns its value together with the rest of the tape.                   *)
(***************************************************************************)
get_random_gender(t) ==
    [val |-> IF Head(t) % 2 = 1 THEN Male ELSE Female, rest |-> Tail(t)]

get_rand_index(len, t) == [val |-> Head(t) % len, rest |-> Tail(t)]

\* Vec::get(index).unwrap() on a 0-based index
bank_get(nb, index) == nb.bank[index + 1]


\* generate_first_name_specific with the gender test inverted
generate_first_name_specific_inverted(gender, t) ==
    IF gender # Male
    THEN LET index == get_rand_index(rng.male_first_names.len, t)
         IN  [val |-> bank_get(rng.male_first_names, index.val), rest |-> index.rest]
    ELSE LET index == get_rand_index(rng.female_first_names.len, t)
         IN  [val |-> bank_get(rng.female_first_names, index.val), rest |-> index.rest]

generate_first_name_specific(gender, t) ==
    IF gender = Male
    THEN LET index == get_rand_index(rng.male_first_names.len, t)
         IN  [val |-> bank_get(rng.male_first_names, index.val), rest |-> index.rest]
    ELSE LET index == get_rand_index(rng.female_first_names.len, t)
         IN  [val |-> bank_get(rng.female_first_names, index.val), rest |-> index.rest]

generate_last_name(t) ==
    LET index == get_rand_index(rng.last_names.len, t)
    IN  [val |-> bank_get(rng.last_names, index.val), rest |-> index.rest]


\* generate_family_member with the two fields of the name exchanged
generate_family_member_swapped(family_last_name, gender, t) ==
    LET first == generate_first_name_specific(gender, t)
    IN  [val |-> RandomName(family_last_name, first.val), rest |-> first.rest]

generate_family_member(family_last_name, gender, t) ==
    LET first == generate_first_name_specific(gender, t)
    IN  [val |-> RandomName(first.val, family_last_name), rest |-> first.rest]

(***************************************************************************)
(* Single names                                                            *)
(***************************************************************************)
generate_specific(gender, t) ==
    LET first_name == generate_first_name_specific(gender, t)
        last_name  == generate_last_name(first_name.rest)
    IN  [val |-> RandomName(first_name.val, last_name.val), rest |-> last_name.rest]

generate(t) ==
    LET gender == get_random_gender(t)
    IN  generate_specific(gender.val, gender.rest)


\* generate_default_name with the two literals exchanged
generate_default_name_swapped == RandomName("Doe", "John")

generate_default_name == RandomName("John", "Doe")

(***************************************************************************)
(* Batches and families                                                    *)
(***************************************************************************)

\* a vector that still holds what the previous call returned
VecNewStale == ret.names

\* Vec::new()
VecNew == <<>>

\* for _ in 0..n { v.push(self.generate()) }
RECURSIVE push_generate(_, _, _)
push_generate(v, n, t) ==
    IF n = 0 THEN [val |-> v, rest |-> t]
    ELSE LET name == generate(t)
         IN  push_generate(Append(v, name.val), n - 1, name.rest)

\* for _ in 0..n { v.push(self.generate_specific(gender)) }
RECURSIVE push_generate_specific(_, _, _, _)
push_generate_specific(v, n, gender, t) ==
    IF n = 0 THEN [val |-> v, rest |-> t]
    ELSE LET name == generate_specific(gender, t)
         IN  push_generate_specific(Append(v, name.val), n - 1, gender, name.rest)

\* for _ in 0..n { v.push(self.generate_family_member(last.clone(), gender)) }
RECURSIVE push_family_member(_, _, _, _, _)
push_family_member(v, n, last, gender, t) ==
    IF n = 0 THEN [val |-> v, rest |-> t]
    ELSE LET child == generate_family_member(last, gender, t)
         IN  push_family_member(Append(v, child.val), n - 1, last, gender, child.rest)


\* generate_many without the early return for amount 0
generate_many_no_guard(amount, t) ==
    LET random_names == push_generate(VecNew, amount, t)
    IN  [val |-> Some(random_names.val), rest |-> random_names.rest]

generate_many(amount, t) ==
    IF amount = 0 THEN [val |-> None, rest |-> t]
    ELSE LET random_names == push_generate(VecNew, amount, t)
         IN  [val |-> Some(random_names.val), rest |-> random_names.rest]


\* generate_many_specific returning None when either amount is 0
generate_many_specific_or(male_amount, female_amount, t) ==
    IF male_amount = 0 \/ female_amount = 0 THEN [val |-> None, rest |-> t]
    ELSE LET males   == push_generate_specific(VecNew, male_amount, Male, t)
             females == push_generate_specific(males.val, female_amount, Female, males.rest)
         IN  [val |-> Some(females.val), rest |-> females.rest]

generate_many_specific(male_amount, female_amount, t) ==
    IF male_amount = 0 /\ female_amount = 0 THEN [val |-> None, rest |-> t]
    ELSE LET males   == push_generate_specific(VecNew, male_amount, Male, t)
             females == push_generate_specific(males.val, female_amount, Female, males.rest)
         IN  [val |-> Some(females.val), rest |-> females.rest]


\* the children of generate_family given the other gender
family_child_gender_female == Female

\* gender given to each child of generate_family
family_child_gender == Male

generate_family(children_amount, t) ==
    LET family_last_name == generate_last_name(t)
        father   == generate_family_member(family_last_name.val, Male, family_last_name.rest)
        mother   == generate_family_member(family_last_name.val, Female, father.rest)
        parents  == Append(Append(VecNew, father.val), mother.val)
        children == push_family_member(parents, children_amount, family_last_name.val,
                                       family_child_gender, mother.rest)
    IN  [val |-> RetVec(children.val), rest |-> children.rest]


\* generate_family_specific with the daughters pushed before the sons
generate_family_specific_girls_first(male_children_amount, female_children_amount, t) ==
    LET family_last_name == generate_last_name(t)
        father  == generate_family_member(family_last_name.val, Male, family_last_name.rest)
        mother  == generate_family_member(family_last_name.val, Female, father.rest)
        parents == Append(Append(VecNew, father.val), mother.val)
        girls   == push_family_member(parents, female_children_amount, family_last_name.val,
                                      Female, mother.rest)
        boys    == push_family_member(girls.val, male_children_amount, family_last_name.val,
                                      Male, girls.rest)
    IN  [val |-> RetVec(boys.val), rest |-> boys.rest]

generate_family_specific(male_children_amount, female_children_amount, t) ==
    LET family_last_name == generate_last_name(t)
        father  == generate_family_member(family_last_name.val, Male, family_last_name.rest)
        mother  == generate_family_member(family_last_name.val, Female, father.rest)
        parents == Append(Append(VecNew, father.val), mother.val)
        boys    == push_family_member(parents, male_children_amount, family_last_name.val,
                                      Male, mother.rest)
        girls   == push_family_member(boys.val, female_children_amount, family_last_name.val,
                                      Female, boys.rest)
    IN  [val |-> RetVec(girls.val), rest |-> girls.rest]

(***************************************************************************)
(* Calls on the generator                                                  *)
(***************************************************************************)
NoGender == "-"
Call(op, gender, a, b) == [op |-> op, gender |-> gender, a |-> a, b |-> b]
NoCall == Call("none", NoGender, 0, 0)

\* number of draws the call takes from the random source
DrawsOf(c) ==
    CASE c.op = "generate" -> 3
      [] c.op = "generate_specific" -> 2
      [] c.op = "generate_many" -> 3 * c.a
      [] c.op = "generate_many_specific" -> 2 * (c.a + c.b)
      [] c.op = "generate_family" -> 3 + c.a
      [] c.op = "generate_family_specific" -> 3 + c.a + c.b
      [] OTHER -> 0

Tapes(n) == [1..n -> Draws]

\* the value the call returns and the tape it leaves
Invoke(c, t) ==
    CASE c.op = "generate" ->
            LET r == generate(t) IN [val |-> RetName(r.val), rest |-> r.rest]
      [] c.op = "generate_specific" ->
            LET r == generate_specific(c.gender, t) IN [val |-> RetName(r.val), rest |-> r.rest]
      [] c.op = "generate_many" -> generate_many(c.a, t)
      [] c.op = "generate_many_specific" -> generate_many_specific(c.a, c.b, t)
      [] c.op = "generate_family" -> generate_family(c.a, t)
      [] c.op = "generate_family_specific" -> generate_family_specific(c.a, c.b, t)
      [] c.op = "generate_default_name" ->
            [val |-> RetName(generate_default_name), rest |-> t]

NoSaved == [call |-> NoCall, tape |-> <<>>, ret |-> NoRet]

Init ==
    /\ rng = RandomNameGenerator
    /\ phase = "idle"
    /\ call = NoCall
    /\ tape = <<>>
    /\ ret = NoRet
    /\ saved = NoSaved
    /\ argv = <<>>
    /\ out = <<>>

\* one call on the generator: the draws it takes are chosen freely
Do(c) ==
    /\ phase = "idle"
    /\ \E t \in Tapes(DrawsOf(c)) :
          /\ tape' = t
          /\ ret' = Invoke(c, t).val
    /\ call' = c
    /\ phase' = "returned"
    /\ UNCHANGED <<rng, saved, argv, out>>

Generate == Do(Call("generate", NoGender, 0, 0))

GenerateSpecific == \E g \in Gender : Do(Call("generate_specific", g, 0, 0))

GenerateMany == \E n \in 0..MaxAmount : Do(Call("generate_many", NoGender, n, 0))

GenerateManySpecific ==
    \E m, f \in 0..MaxAmount : Do(Call("generate_many_specific", NoGender, m, f))

GenerateFamily == \E n \in 0..MaxAmount : Do(Call("generate_family", NoGender, n, 0))

GenerateFamilySpecific ==
    \E m, f \in 0..MaxAmount : Do(Call("generate_family_specific", NoGender, m, f))

GenerateDefaultName == Do(Call("generate_default_name", NoGender, 0, 0))

\* the caller drops the returned value; the generator is used again
Drop ==
    /\ phase = "returned"
    /\ phase' = "idle"
    /\ call' = NoCall
    /\ tape' = <<>>
    /\ ret' = NoRet
    /\ UNCHANGED <<rng, saved, argv, out>>

Next ==
    \/ Generate
    \/ GenerateSpecific
    \/ GenerateMany
    \/ GenerateManySpecific
    \/ GenerateFamily
    \/ GenerateFamilySpecific
    \/ GenerateDefaultName
    \/ Drop

Spec == Init /\ [][Next]_vars

(***************************************************************************)
(* Command line (main.rs).  An argument is a sequence of characters.       *)
(***************************************************************************)
Digit == ("0" :> 0) @@ ("1" :> 1) @@ ("2" :> 2) @@ ("3" :> 3) @@ ("4" :> 4) @@
         ("5" :> 5) @@ ("6" :> 6) @@ ("7" :> 7) @@ ("8" :> 8) @@ ("9" :> 9)

\* u32::MAX, digit by digit
U32MaxDigits == <<4, 2, 9, 4, 9, 6, 7, 2, 9, 5>>

ParseErr == [ok |-> FALSE, val |-> 0]

RECURSIVE strip_zeros(_)
strip_zeros(ds) ==
    IF ds # <<>> /\ Head(ds) = 0 THEN strip_zeros(Tail(ds)) ELSE ds

\* ds <= es for two digit sequences of one length
RECURSIVE lex_le(_, _)
lex_le(ds, es) ==
    \/ ds = <<>>
    \/ Head(ds) < Head(es)
    \/ Head(ds) = Head(es) /\ lex_le(Tail(ds), Tail(es))

\* the checked_mul / checked_add of the accumulation never fail
fits_u32(ds) ==
    LET sig == strip_zeros(ds)
    IN  \/ Len(sig) < Len(U32MaxDigits)
        \/ Len(sig) = Len(U32MaxDigits) /\ lex_le(sig, U32MaxDigits)

RECURSIVE digits_value(_, _)
digits_value(acc, ds) ==
    IF ds = <<>> THEN acc ELSE digits_value(acc * 10 + Head(ds), Tail(ds))

\* str::parse::<u32>(): one optional leading '+', then one or more decimal
\* digits whose value fits 32 bits; no sign '-', no blanks
parse_u32(arg) ==
    IF arg = <<>> THEN ParseErr
    ELSE LET body == IF Head(arg) = "+" THEN Tail(arg) ELSE arg
         IN  IF body = <<>> \/ \E i \in 1..Len(body) : body[i] \notin DOMAIN Digit
             THEN ParseErr
             ELSE LET ds == [i \in 1..Len(body) |-> Digit[body[i]]]
                  IN  IF fits_u32(ds) THEN [ok |-> TRUE, val |-> digits_value(0, ds)]
                      ELSE ParseErr

valid_commands ==
    << <<"-", "h">>, <<"-", "-", "h", "e", "l", "p">>,
       <<"-", "m">>, <<"-", "f">>,
       <<"-", "-", "m", "a", "l", "e">>, <<"-", "-", "f", "e", "m", "a", "l", "e">>,
       <<"-", "M">>, <<"-", "F">>,
       <<"-", "-", "m", "a", "n", "y">>, <<"-", "-", "f", "a", "m", "i", "l", "y">> >>

\* [T]::contains
contains(array, x) == \E i \in 1..Len(array) : array[i] = x

\* the arguments tried on the command line
Args ==
    BankSet([bank |-> valid_commands]) \cup
    { <<"0">>, <<"1">>, <<"2">>, <<"+", "1">>, <<"-", "1">>, <<"f", "o", "o">>,
      <<"4", "2", "9", "4", "9", "6", "7", "2", "9", "6">> }

ArgVectors == UNION {[1..n -> Args] : n \in 0..MaxArgs}

\* What main does, in order: library calls whose names are printed with
\* println!, eprintln! of a message, and print_command_usage().
FxCall(c) == [k |-> "call", call |-> c, msg |-> ""]
FxError(msg) == [k |-> "eprintln", call |-> NoCall, msg |-> msg]
FxUsage == [k |-> "usage", call |-> NoCall, msg |-> ""]

\* Result<(), &str> of a command, with what it did before returning
Ok(fx) == [fx |-> fx, err |-> ""]
Err(msg) == [fx |-> <<>>, err |-> msg]

ErrParseAmount == "Could not parse the amount of names to be generated."
ErrParseMale == "Could not parse the amount of male names to be generated."
ErrParseFemale == "Could not parse the amount of female names to be generated."
ErrTooFew == "Too few command arguments."
ErrTooMany == "Too many command arguments."
ErrNotValid == "Not a valid command."

main_generate_specific(gender, args) ==
    CASE Len(args) = 1 -> Ok(<<FxCall(Call("generate_specific", gender, 0, 0))>>)
      [] Len(args) = 2 ->
            LET amount == parse_u32(args[2])
            IN  IF ~amount.ok THEN Err(ErrParseAmount)
                ELSE IF gender = Male
                     THEN Ok(<<FxCall(Call("generate_many_specific", NoGender, amount.val, 0))>>)
                     ELSE Ok(<<FxCall(Call("generate_many_specific", NoGender, 0, amount.val))>>)
      [] OTHER -> Err(ErrTooMany)

main_generate_many(args) ==
    CASE Len(args) <= 1 -> Err(ErrTooFew)
      [] Len(args) = 2 ->
            LET amount == parse_u32(args[2])
            IN  IF ~amount.ok THEN Err(ErrParseAmount)
                ELSE Ok(<<FxCall(Call("generate_many", NoGender, amount.val, 0))>>)
      [] Len(args) = 3 ->
            LET male_amount   == parse_u32(args[2])
                female_amount == parse_u32(args[3])
            IN  IF ~male_amount.ok THEN Err(ErrParseMale)
                ELSE IF ~female_amount.ok THEN Err(ErrParseFemale)
                ELSE Ok(<<FxCall(Call("generate_many_specific", NoGender,
                                      male_amount.val, female_amount.val))>>)
      [] OTHER -> Err(ErrTooMany)

main_generate_family(args) ==
    CASE Len(args) <= 1 -> Err(ErrTooFew)
      [] Len(args) = 2 ->
            LET amount == parse_u32(args[2])
            IN  IF ~amount.ok THEN Err(ErrParseAmount)
                ELSE Ok(<<FxCall(Call("generate_family", NoGender, amount.val, 0))>>)
      [] Len(args) = 3 ->
            LET male_amount   == parse_u32(args[2])
                female_amount == parse_u32(args[3])
            IN  IF ~male_amount.ok THEN Err(ErrParseMale)
                ELSE IF ~female_amount.ok THEN Err(ErrParseFemale)
                ELSE Ok(<<FxCall(Call("generate_family_specific", NoGender,
                                      male_amount.val, female_amount.val))>>)
      [] OTHER -> Err(ErrTooMany)

generate_many_quick(amount) ==
    IF amount = 0 THEN <<>>
    ELSE <<FxCall(Call("generate_many", NoGender, amount, 0))>>


\* the single-argument shortcut with `else if` written as a second `if`
main_single_argument_two_ifs(args) ==
    IF Len(args) = 1
    THEN LET amount == parse_u32(args[1])
         IN  (IF amount.ok THEN generate_many_quick(amount.val) ELSE <<>>)
             \o (IF ~contains(valid_commands, args[1])
                 THEN <<FxError(ErrParseAmount), FxUsage>>
                 ELSE <<>>)
    ELSE <<>>

\* main, lines 25-32: the single-argument shortcut
main_single_argument(args) ==
    IF Len(args) = 1
    THEN LET amount == parse_u32(args[1])
         IN  IF amount.ok THEN generate_many_quick(amount.val)
             ELSE IF ~contains(valid_commands, args[1])
                  THEN <<FxError(ErrParseAmount), FxUsage>>
                  ELSE <<>>
    ELSE <<>>

\* main, lines 34-57: the dispatch on the command
main_command(args) ==
    LET command == args[1]
        Is(short, long) == command = short \/ command = long
    IN  IF contains(valid_commands, command)
        THEN IF Is(<<"-", "h">>, <<"-", "-", "h", "e", "l", "p">>) THEN <<FxUsage>>
             ELSE LET res ==
                        CASE Is(<<"-", "m">>, <<"-", "-", "m", "a", "l", "e">>) ->
                                main_generate_specific(Male, args)
                          [] Is(<<"-", "f">>, <<"-", "-", "f", "e", "m", "a", "l", "e">>) ->
                                main_generate_specific(Female, args)
                          [] Is(<<"-", "M">>, <<"-", "-", "m", "a", "n", "y">>) ->
                                main_generate_many(args)
                          [] Is(<<"-", "F">>, <<"-", "-", "f", "a", "m", "i", "l", "y">>) ->
                                main_generate_family(args)
                          [] OTHER -> [fx |-> <<FxError(ErrNotValid), FxUsage>>, err |-> ""]
                  IN  IF res.err # "" THEN <<FxError(res.err), FxUsage>> ELSE res.fx
        ELSE <<>>

main(args) ==
    IF args = <<>> THEN <<FxCall(Call("generate", NoGender, 0, 0))>>
    ELSE main_single_argument(args) \o main_command(args)

\* the lines written, each with its stream
Stdout(line) == [stream |-> "stdout", line |-> line]
Stderr(line) == [stream |-> "stderr", line |-> line]

print_command_usage ==
    << Stdout("USAGE:"),
       Stdout("\tname_maker [amount]"),
       Stdout("\tname_maker -m|--male|-f|--female [amount]"),
       Stdout("\tname_maker -M|--many|-F|--family [amount|male_amount female_amount]") >>

\* for name in names { println!("{}", name) }
println_names(names) == [i \in 1..Len(names) |-> Stdout(Display(names[i]))]

\* the draws main takes from the random source
RECURSIVE DrawsOfFx(_)
DrawsOfFx(fx) ==
    IF fx = <<>> THEN 0
    ELSE DrawsOf(Head(fx).call) + DrawsOfFx(Tail(fx))

\* the output of the steps of main, the calls taking their draws from t
RECURSIVE Output(_, _)
Output(fx, t) ==
    IF fx = <<>> THEN <<>>
    ELSE LET e == Head(fx)
         IN  CASE e.k = "call" ->
                     LET r == Invoke(e.call, t)
                     IN  println_names(r.val.names) \o Output(Tail(fx), r.rest)
               [] e.k = "eprintln" -> <<Stderr(e.msg)>> \o Output(Tail(fx), t)
               [] e.k = "usage" -> print_command_usage \o Output(Tail(fx), t)

\* one run of the program on the arguments args
Main ==
    /\ phase = "idle"
    /\ \E args \in ArgVectors :
          /\ argv' = args
          /\ \E t \in Tapes(DrawsOfFx(main(args))) :
                /\ tape' = t
                /\ out' = Output(main(args), t)
    /\ phase' = "exited"
    /\ UNCHANGED <<rng, call, ret, saved>>

CliNext == Main

CliSpec == Init /\ [][CliNext]_vars

(***************************************************************************)
(* Two runs of one call.  The first run is remembered with its draws; the  *)
(* generator then serves another caller; the call is then run again on the *)
(* same arguments and the same draws.                                      *)
(***************************************************************************)
Calls ==
    {Call("generate", NoGender, 0, 0), Call("generate_default_name", NoGender, 0, 0)}
    \cup {Call("generate_specific", g, 0, 0) : g \in Gender}
    \cup {Call(op, NoGender, n, 0) :
             op \in {"generate_many", "generate_family"}, n \in 0..MaxAmount}
    \cup {Call(op, NoGender, m, f) :
             op \in {"generate_many_specific", "generate_family_specific"},
             m \in 0..MaxAmount, f \in 0..MaxAmount}

FirstRun ==
    /\ phase = "idle"
    /\ \E c \in Calls : \E t \in Tapes(DrawsOf(c)) :
          /\ call' = c
          /\ tape' = t
          /\ ret' = Invoke(c, t).val
          /\ saved' = [call |-> c, tape |-> t, ret |-> Invoke(c, t).val]
    /\ phase' = "first"
    /\ UNCHANGED <<rng, argv, out>>

\* another caller's generate() between the two runs
Interleave ==
    /\ phase = "first"
    /\ \E t \in Tapes(3) :
          /\ call' = Call("generate", NoGender, 0, 0)
          /\ tape' = t
          /\ ret' = Invoke(Call("generate", NoGender, 0, 0), t).val
    /\ phase' = "between"
    /\ UNCHANGED <<rng, saved, argv, out>>

Replay ==
    /\ phase = "between"
    /\ call' = saved.call
    /\ tape' = saved.tape
    /\ ret' = Invoke(saved.call, saved.tape).val
    /\ phase' = "replayed"
    /\ UNCHANGED <<rng, saved, argv, out>>

DetNext == FirstRun \/ Interleave \/ Replay

DetSpec == Init /\ [][DetNext]_vars

(***************************************************************************)
(* Properties of the generation operations                                 *)
(***************************************************************************)
MaleBank == BankSet(rng.male_first_names)
FemaleBank == BankSet(rng.female_first_names)
SurnameBank == BankSet(rng.last_names)

Returned(op) == phase = "returned" /\ call.op = op

\* every name of the sequence has the same last_name
SameLastName(names) ==
    \A i, j \in 1..Len(names) : names[i].last_name = names[j].last_name

\* C1: generate_many_specific(M, F) returns None exactly when M = 0 and F = 0;
\* otherwise it returns Some list of exactly M+F names, the first M with a
\* first name of the male bank and the remaining F with a first name of the
\* female bank.
C1_ManySpecificSplit ==
    Returned("generate_many_specific") =>
        /\ (ret = None) <=> (call.a = 0 /\ call.b = 0)
        /\ ret # None =>
              /\ ret.tag = "Some"
              /\ Len(ret.names) = call.a + call.b
              /\ \A i \in 1..call.a : ret.names[i].first_name \in MaleBank
              /\ \A i \in (call.a + 1)..(call.a + call.b) :
                     ret.names[i].first_name \in FemaleBank

C1_Witness ==
    /\ Returned("generate_many_specific")
    /\ call.a = 2 /\ call.b = 1
    /\ Len(ret.names) = 3
    /\ ret.names[3].first_name \in FemaleBank

\* C2: generate_family(N) returns a list (never None) of exactly 2+N names that
\* all carry one last_name of the surname bank; position 0 has a first name of
\* the male bank (father) and position 1 one of the female bank (mother).
C2_FamilyShape ==
    Returned("generate_family") =>
        /\ ret.tag = "Vec"
        /\ Len(ret.names) = 2 + call.a
        /\ SameLastName(ret.names)
        /\ ret.names[1].last_name \in SurnameBank
        /\ ret.names[1].first_name \in MaleBank
        /\ ret.names[2].first_name \in FemaleBank

C2_Witness ==
    /\ Returned("generate_family")
    /\ call.a = 2
    /\ Len(ret.names) = 4
    /\ ret.names[4].last_name = ret.names[1].last_name

\* C3: generate_family_specific(M, F) returns (never None, also for M = F = 0)
\* exactly 2+M+F names: father (male first name), mother (female first name),
\* M children with male first names, then F children with female first names,
\* all with one last_name.
C3_FamilySpecificShape ==
    Returned("generate_family_specific") =>
        /\ ret.tag = "Vec"
        /\ Len(ret.names) = 2 + call.a + call.b
        /\ SameLastName(ret.names)
        /\ ret.names[1].first_name \in MaleBank
        /\ ret.names[2].first_name \in FemaleBank
        /\ \A i \in 3..(2 + call.a) : ret.names[i].first_name \in MaleBank
        /\ \A i \in (3 + call.a)..(2 + call.a + call.b) :
               ret.names[i].first_name \in FemaleBank

C3_Witness ==
    /\ Returned("generate_family_specific")
    /\ call.a = 1 /\ call.b = 2
    /\ Len(ret.names) = 5
    /\ ret.names[3].first_name \in MaleBank
    /\ ret.names[5].first_name \in FemaleBank

\* C4: generate_many(0) returns None; for N > 0 generate_many(N) returns Some
\* list of exactly N names, the i-th being what the i-th generate() call makes
\* of its three draws.
C4_ManyShape ==
    Returned("generate_many") =>
        /\ call.a = 0 => ret = None
        /\ call.a > 0 =>
              /\ ret.tag = "Some"
              /\ Len(ret.names) = call.a
              /\ ret.names # <<>>
              /\ \A i \in 1..call.a :
                     ret.names[i] = generate(SubSeq(tape, 3 * i - 2, 3 * i)).val

C4_Witness ==
    /\ Returned("generate_many")
    /\ call.a = 2
    /\ Len(ret.names) = 2
    /\ ret.names[1] # ret.names[2]

\* C5: every name returned by generate, generate_specific, generate_many,
\* generate_many_specific, generate_family and generate_family_specific has a
\* first_name of one of the two first-name banks and a last_name of the surname
\* bank; generate_specific(gender) takes the first name from gender's bank.
C5_NamesFromBanks ==
    (phase = "returned" /\ call.op # "generate_default_name") =>
        /\ \A i \in 1..Len(ret.names) :
              /\ ret.names[i].first_name \in MaleBank \cup FemaleBank
              /\ ret.names[i].last_name \in SurnameBank
        /\ call.op = "generate_specific" =>
              /\ Len(ret.names) = 1
              /\ call.gender = Male => ret.names[1].first_name \in MaleBank
              /\ call.gender = Female => ret.names[1].first_name \in FemaleBank

C5_Witness ==
    /\ Returned("generate_specific")
    /\ call.gender = Female
    /\ ret.names[1].first_name \in FemaleBank
    /\ ret.names[1].last_name \in SurnameBank

\* C8: generate_default_name() returns first_name "John" and last_name "Doe",
\* whatever the banks and the draws, and that name renders as "John Doe".
C8_DefaultName ==
    Returned("generate_default_name") =>
        /\ ret.tag = "Name"
        /\ ret.names[1].first_name = "John"
        /\ ret.names[1].last_name = "Doe"
        /\ Display(ret.names[1]) = "John Doe"

C8_Witness ==
    /\ Returned("generate_default_name")
    /\ Len(ret.names) = 1
    /\ ret.names[1].first_name \notin MaleBank \cup FemaleBank

\* C9: in generate_family(N) every child (positions 2 .. N+1) has a first name
\* of the male bank, never one of the female bank.
C9_FamilyChildrenMale ==
    Returned("generate_family") =>
        \A i \in 3..Len(ret.names) :
            /\ ret.names[i].first_name \in MaleBank
            /\ ret.names[i].first_name \notin FemaleBank

C9_Witness ==
    /\ Returned("generate_family")
    /\ call.a = 2
    /\ Len(ret.names) = 4
    /\ ret.names[3].first_name # ret.names[4].first_name

(***************************************************************************)
(* Properties of the command line                                          *)
(***************************************************************************)
\* the first argument is neither a valid flag nor an unsigned number
Unrecognized(args) ==
    /\ args # <<>>
    /\ ~contains(valid_commands, args[1])
    /\ ~parse_u32(args[1]).ok

\* a line on the error stream directly followed by the usage text
ErrorThenUsage(o) ==
    \E i \in 1..Len(o) :
        /\ o[i].stream = "stderr"
        /\ Len(o) >= i + Len(print_command_usage)
        /\ SubSeq(o, i + 1, i + Len(print_command_usage)) = print_command_usage

\* C6: every run whose first argument is neither a valid flag nor a parseable
\* unsigned number, whatever the number of arguments, prints an error message
\* to the error stream and then the usage text; none ends with no output.
C6_UnrecognizedReported ==
    (phase = "exited" /\ Unrecognized(argv)) => (out # <<>> /\ ErrorThenUsage(out))

\* o is exactly the n names that n generate() calls make of the draws, printed
\* in order on the output stream
OnlyNames(o, n) ==
    /\ Len(o) = n
    /\ \A i \in 1..Len(o) :
           o[i] = Stdout(Display(generate(SubSeq(tape, 3 * i - 2, 3 * i)).val))

\* C7: a run with no argument prints exactly one name, and a run with exactly
\* one argument that parses as the unsigned number N prints exactly N names,
\* with no error message and no usage text.
C7_QuickCounts ==
    phase = "exited" =>
        /\ argv = <<>> => OnlyNames(out, 1)
        /\ (Len(argv) = 1 /\ parse_u32(argv[1]).ok) => OnlyNames(out, parse_u32(argv[1]).val)

C7_Witness ==
    /\ phase = "exited"
    /\ argv = << <<"2">> >>
    /\ Len(out) = 2
    /\ out[1] # out[2]

====
